---- MODULE Spec2Model ----
(***************************************************************************)
(* Ref-counted lazy worker proxy (workers.ts) and the worker-side protocol *)
(* (protocol.ts) of reactodia/worker-proxy.                                *)
(*                                                                         *)
(* The consumer side runs on a JavaScript event loop: a task (a consumer   *)
(* task or the delivery of a worker event) runs to completion, then the    *)
(* microtask queue mq is drained in FIFO order before the next task        *)
(* starts.  Consumer code may itself run as a microtask (a promise         *)
(* reaction it scheduled): that is the "tick" entry of mq.  The worker     *)
(* context runs concurrently with the event loop.                          *)
(***************************************************************************)
EXTENDS Integers, Sequences, FiniteSets, TLC

\* ---------------------------------------------------------------- bounds
MaxCalls == 2      \* proxy method calls issued by the consumer
MaxAtt == 2        \* makeBlockedState() invocations (connection attempts)
MaxChan == 2       \* workerFactory() invocations (channels)
MaxRef == 2        \* largest reference count explored
MinRefDepth == 1   \* the count is explored down to -MinRefDepth
LiveCalls == 1     \* proxy method calls in the runs checked for liveness

Calls == 1..MaxCalls
Atts == 1..MaxAtt
Chans == 1..MaxChan

VARIABLES
    instance,   \* LazyRefCountedWorker._instance is set
    refCount,   \* LazyRefCountedWorker._refCount
    cs,         \* LazyWorkerProxy.connectionState.type
    csAtt,      \* the attempt whose request/controller connectionState carries (0: none)
    csConn,     \* connectionState.connection (0: none)
    nAtt,       \* attempts created so far
    att,        \* per attempt: shared request promise, AbortController, connect() progress
    nChan,      \* channels created so far (workerFactory invocations)
    chan,       \* per channel: WorkerConnection fields and the worker context behind it
    nCalls,     \* proxy method calls issued so far
    call,       \* per proxy method call: where it is and how its promise settled
    mq,         \* the microtask queue
    running,    \* consumer code is on the stack
    lastOp,     \* history: the handler that ran last
    cut,        \* history: calls of the current attempt that were unsettled
                \* when a release() brought the count to zero
    invoked     \* history: which of acquire() and release() have been called

vars == <<instance, refCount, cs, csAtt, csConn, nAtt, att, nChan, chan,
          nCalls, call, mq, running, lastOp, cut, invoked>>

handleVars == <<instance, refCount>>
connVars == <<cs, csAtt, csConn>>

\* ------------------------------------------------------------ data shapes
\* makeBlockedState(): a pending request promise and a fresh AbortController.
\* ctor: outcome of the 'constructor' call promise; conn: outcome of connect().
NewAtt ==
    [req |-> "pending", val |-> "", aborted |-> FALSE, chan |-> 0,
     waiters |-> <<>>, ctor |-> "pending", conn |-> "pending"]

\* The 'constructor' call envelope is the first call on a channel: id 1.
CtorId == 1

CallEnv(id, method, arg) == [id |-> id, method |-> method, arg |-> arg]
Response(type, id, val) == [type |-> type, id |-> id, val |-> val]

\* new WorkerConnection(worker): empty table, nextCallId = 1, listeners attached.
NewChan(a) ==
    [att |-> a, requests |-> {}, nextCallId |-> 1, listening |-> TRUE,
     terminated |-> FALSE, faulted |-> FALSE,
     inbox |-> <<>>, handler |-> FALSE, active |-> {}, outbox |-> {}]

NoChan == [NewChan(0) EXCEPT !.listening = FALSE]

NoCall == [st |-> "none", att |-> 0, chan |-> 0, id |-> 0, val |-> 0, err |-> ""]

Task(k, n) == [k |-> k, n |-> n]
Tick == Task("tick", 0)

\* The result the worker's method computes for argument x (Calculator.add).
Compute(x) == 10 * x

\* The configured constructor arguments ([{precision: 1}] in the tests).
ConstructorArgs == 1

\* ------------------------------------------------------ WorkerConnection
\* postMessage() on a terminated (or dead) context delivers nothing.
PostMessage(c, env) ==
    IF c.terminated \/ c.faulted THEN c.inbox ELSE Append(c.inbox, env)

\* WorkerConnection.call(): take the next id, record the pending entry, send
\* the call envelope.  The options.signal argument is not read.
ChanCall(c, method, arg) ==
    [c EXCEPT !.requests = @ \cup {c.nextCallId},
              !.nextCallId = @ + 1,
              !.inbox = PostMessage(c, CallEnv(c.nextCallId, method, arg))]

\* WorkerConnection.dispose(): detach both listeners, terminate the context.
Dispose(c) == [c EXCEPT !.listening = FALSE, !.terminated = TRUE]

\* --------------------------------------------------------- LazyWorkerProxy
\* A caller awaits the shared request promise of attempt a: it is queued on
\* the promise while that is pending, and continues in a microtask otherwise.
AwaitRequest(A, a, c) ==
    IF A[a].req = "pending"
    THEN /\ att' = [A EXCEPT ![a].waiters = Append(@, c)]
         /\ mq' = mq
    ELSE /\ att' = A
         /\ mq' = Append(mq, Task("call", c))

\* (mutant: connect() builds the channel and sends no constructor call)
StartConnectSilent(A, a) ==
    IF A[a].aborted
    THEN /\ att' = [A EXCEPT ![a].conn = "abort"]
         /\ mq' = Append(mq, Task("connectThen", a))
         /\ UNCHANGED <<chan, nChan>>
    ELSE /\ nChan < MaxChan
         /\ nChan' = nChan + 1
         /\ chan' = [chan EXCEPT ![nChan + 1] = NewChan(a)]
         /\ att' = [A EXCEPT ![a].chan = nChan + 1]
         /\ UNCHANGED mq

\* connect() up to its first await: throwIfAborted(), workerFactory(),
\* new WorkerConnection, call('constructor', constructorArgs).
StartConnect(A, a) ==
    IF A[a].aborted
    THEN /\ att' = [A EXCEPT ![a].conn = "abort"]
         /\ mq' = Append(mq, Task("connectThen", a))
         /\ UNCHANGED <<chan, nChan>>
    ELSE /\ nChan < MaxChan
         /\ nChan' = nChan + 1
         /\ chan' = [chan EXCEPT ![nChan + 1] =
                        ChanCall(NewChan(a), "constructor", ConstructorArgs)]
         /\ att' = [A EXCEPT ![a].chan = nChan + 1]
         /\ UNCHANGED mq

\* (mutant: a call in the blocked state begins the construction too)
StartsConstructionEager(t) == t \in {"ready", "blocked"}

\* tryConnect() begins the channel construction in the ready state only.
StartsConstruction(t) == t = "ready"

\* tryConnect(), for proxy method call c (the part before the caller awaits).
TryConnect(c) ==
    CASE cs = "disconnected" ->
            /\ nAtt < MaxAtt
            /\ nAtt' = nAtt + 1
            /\ cs' = "blocked"
            /\ csAtt' = nAtt + 1
            /\ att' = [att EXCEPT ![nAtt + 1] = [NewAtt EXCEPT !.waiters = <<c>>]]
            /\ call' = [call EXCEPT ![c] =
                          [NoCall EXCEPT !.st = "waiting", !.att = nAtt + 1]]
            /\ UNCHANGED <<csConn, nChan, chan, mq>>
      [] cs # "disconnected" /\ StartsConstruction(cs) ->
            /\ cs' = "connecting"
            /\ StartConnect([att EXCEPT ![csAtt].waiters = Append(@, c)], csAtt)
            /\ call' = [call EXCEPT ![c] =
                          [NoCall EXCEPT !.st = "waiting", !.att = csAtt]]
            /\ UNCHANGED <<csAtt, csConn, nAtt>>
      [] cs \in {"blocked", "connecting"} /\ ~StartsConstruction(cs) ->
            /\ AwaitRequest(att, csAtt, c)
            /\ call' = [call EXCEPT ![c] =
                          [NoCall EXCEPT !.st = "waiting", !.att = csAtt]]
            /\ UNCHANGED <<cs, csAtt, csConn, nAtt, nChan, chan>>
      [] cs = "connected" /\ ~StartsConstruction(cs) ->
            /\ call' = [call EXCEPT ![c] =
                          [NoCall EXCEPT !.st = "waiting", !.att = csAtt,
                                         !.chan = csConn]]
            /\ mq' = Append(mq, Task("call", c))
            /\ UNCHANGED <<cs, csAtt, csConn, nAtt, att, nChan, chan>>

\* (mutant: ready() marks the blocked state ready but does not call
\* tryConnect(), so the waiting callers start nothing)
ReadyFromBlockedIdle ==
    /\ cs' = "ready"
    /\ UNCHANGED <<csAtt, csConn, nAtt, att, nChan, chan, mq>>

\* ready() in the blocked state: -> ready, then tryConnect() in that state.
ReadyFromBlocked ==
    /\ cs' = "connecting"
    /\ StartConnect(att, csAtt)
    /\ UNCHANGED <<csAtt, csConn, nAtt>>

\* (mutant: ready() in the connecting state begins the construction again)
ReadyRestarts ==
    CASE cs = "disconnected" ->
            /\ nAtt < MaxAtt
            /\ nAtt' = nAtt + 1
            /\ cs' = "ready"
            /\ csAtt' = nAtt + 1
            /\ att' = [att EXCEPT ![nAtt + 1] = NewAtt]
            /\ UNCHANGED <<csConn, nChan, chan, mq>>
      [] cs \in {"blocked", "connecting"} -> ReadyFromBlocked
      [] OTHER ->
            UNCHANGED <<cs, csAtt, csConn, nAtt, att, nChan, chan, mq>>

\* ready(): the acquire signal.
Ready ==
    CASE cs = "disconnected" ->
            /\ nAtt < MaxAtt
            /\ nAtt' = nAtt + 1
            /\ cs' = "ready"
            /\ csAtt' = nAtt + 1
            /\ att' = [att EXCEPT ![nAtt + 1] = NewAtt]
            /\ UNCHANGED <<csConn, nChan, chan, mq>>
      [] cs = "blocked" -> ReadyFromBlocked
      [] OTHER ->
            UNCHANGED <<cs, csAtt, csConn, nAtt, att, nChan, chan, mq>>

\* (mutant: disconnect() signals the cancellation handle and leaves the
\* state and the channel as they are)
DisconnectAbortOnly ==
    /\ att' = IF csAtt = 0 THEN att ELSE [att EXCEPT ![csAtt].aborted = TRUE]
    /\ UNCHANGED <<cs, csAtt, csConn, chan>>

\* disconnect(): the release-to-zero signal.
Disconnect ==
    CASE cs = "disconnected" ->
            UNCHANGED <<cs, csAtt, csConn, att, chan>>
      [] cs \in {"blocked", "ready", "connecting"} ->
            /\ att' = [att EXCEPT ![csAtt].aborted = TRUE]
            /\ cs' = "disconnected"
            /\ csAtt' = 0
            /\ csConn' = 0
            /\ UNCHANGED chan
      [] cs = "connected" ->
            /\ att' = [att EXCEPT ![csAtt].aborted = TRUE]
            /\ chan' = [chan EXCEPT ![csConn] = Dispose(@)]
            /\ cs' = "disconnected"
            /\ csAtt' = 0
            /\ csConn' = 0

\* --------------------------------------------------- LazyRefCountedWorker
\* (mutant: off by one, the first acquire() does not signal ready())
AcquireSignalsLate(n) == n > 1

\* acquire() signals ready() for a resulting positive count.
AcquireSignals(n) == n > 0

\* (mutant: release() signals disconnect() while one consumer still holds it)
ReleaseSignalsEarly(n) == n <= 1

\* (mutant: release() signals disconnect() only below zero)
ReleaseSignalsBelow(n) == n < 0

\* release() signals disconnect() when the count reaches zero or below.
ReleaseSignals(n) == n <= 0

\* (mutant: release() decrements even before the Lazy Connection exists)
ReleaseCountsAlways == TRUE

\* release() decrements only when the Lazy Connection exists.
ReleaseCounts == instance

\* (mutant: getProxy() signals ready() as acquire() does)
GetProxySignalsReady == TRUE

\* getProxy() does not signal ready().
GetProxySignals == FALSE

Init ==
    /\ instance = FALSE
    /\ refCount = 0
    /\ cs = "disconnected"
    /\ csAtt = 0
    /\ csConn = 0
    /\ nAtt = 0
    /\ att = [a \in Atts |-> NewAtt]
    /\ nChan = 0
    /\ chan = [c \in Chans |-> NoChan]
    /\ nCalls = 0
    /\ call = [c \in Calls |-> NoCall]
    /\ mq = <<>>
    /\ running = FALSE
    /\ lastOp = "init"
    /\ cut = {}
    /\ invoked = {}

\* The proxy method calls whose promise is not settled.
Unsettled == {c \in Calls : call[c].st \in {"waiting", "sent"}}

\* History of a step that is not a release().
Ran(op) ==
    /\ lastOp' = op
    /\ cut' = cut
    /\ invoked' = IF op = "acquire" THEN invoked \cup {op} ELSE invoked

\* ------------------------------------------------------- consumer steps
\* A consumer task starts when the event loop is idle.
ConsumerTask ==
    /\ ~running
    /\ mq = <<>>
    /\ running' = TRUE
    /\ Ran("task")
    /\ UNCHANGED <<handleVars, connVars, nAtt, att, nChan, chan, nCalls, call, mq>>

\* Consumer code scheduled as a microtask (a promise reaction) runs in turn.
ConsumerTick ==
    /\ ~running
    /\ mq # <<>>
    /\ Head(mq) = Tick
    /\ mq' = Tail(mq)
    /\ running' = TRUE
    /\ Ran("task")
    /\ UNCHANGED <<handleVars, connVars, nAtt, att, nChan, chan, nCalls, call>>

\* Running consumer code schedules a later microtask of its own.
ConsumerSchedule ==
    /\ running
    /\ \A i \in 1..Len(mq) : mq[i] # Tick
    /\ mq' = Append(mq, Tick)
    /\ Ran("schedule")
    /\ UNCHANGED <<handleVars, connVars, nAtt, att, nChan, chan, nCalls, call, running>>

\* Consumer code returns to the event loop.
ConsumerYield ==
    /\ running
    /\ running' = FALSE
    /\ Ran("yield")
    /\ UNCHANGED <<handleVars, connVars, nAtt, att, nChan, chan, nCalls, call, mq>>

\* getProxy(): ensureInstance() and the proxy of the instance, nothing else.
GetProxy ==
    /\ running
    /\ instance' = TRUE
    /\ IF GetProxySignals
       THEN Ready
       ELSE UNCHANGED <<cs, csAtt, csConn, nAtt, att, nChan, chan, mq>>
    /\ Ran("getProxy")
    /\ UNCHANGED <<refCount, nCalls, call, running>>

\* acquire()
Acquire ==
    /\ running
    /\ refCount < MaxRef
    /\ instance' = TRUE
    /\ refCount' = refCount + 1
    /\ IF AcquireSignals(refCount + 1)
       THEN Ready
       ELSE UNCHANGED <<cs, csAtt, csConn, nAtt, att, nChan, chan, mq>>
    /\ Ran("acquire")
    /\ UNCHANGED <<nCalls, call, running>>

\* release()
Release ==
    /\ running
    /\ refCount > -MinRefDepth
    /\ IF ReleaseCounts
       THEN /\ refCount' = refCount - 1
            /\ IF ReleaseSignals(refCount - 1)
               THEN Disconnect
               ELSE UNCHANGED <<cs, csAtt, csConn, att, chan>>
       ELSE UNCHANGED <<refCount, cs, csAtt, csConn, att, chan>>
    /\ lastOp' = "release"
    /\ cut' = IF ReleaseCounts /\ refCount - 1 = 0
              THEN cut \cup {c \in Unsettled : call[c].att = csAtt}
              ELSE cut
    /\ invoked' = invoked \cup {"release"}
    /\ UNCHANGED <<instance, nAtt, nChan, nCalls, call, mq, running>>

\* A method of the proxy is invoked (the forwarding closure of getMethod()):
\* it runs tryConnect() and awaits the promise it returns.
Call ==
    /\ running
    /\ instance
    /\ nCalls < MaxCalls
    /\ nCalls' = nCalls + 1
    /\ TryConnect(nCalls + 1)
    /\ Ran("call")
    /\ UNCHANGED <<handleVars, running>>

\* -------------------------------------------------------- microtask steps
\* (mutant: connect() does not look at the signal after the constructor call)
AbortIgnoredAfterCtor(a) == FALSE

\* connect() checks controller.signal.aborted once the constructor call is done.
AbortedAfterCtor(a) == att[a].aborted

\* connect() resumes after `await rawConnection.call('constructor', ...)`.
ConnectResume ==
    /\ ~running
    /\ mq # <<>>
    /\ Head(mq).k = "connectCont"
    /\ LET a == Head(mq).n
           ch == att[a].chan
       IN  /\ IF att[a].ctor = "ok"
              THEN IF AbortedAfterCtor(a)
                   THEN /\ chan' = [chan EXCEPT ![ch] = Dispose(@)]
                        /\ att' = [att EXCEPT ![a].conn = "abort"]
                   ELSE /\ chan' = chan
                        /\ att' = [att EXCEPT ![a].conn = "ok"]
              ELSE /\ chan' = chan
                   /\ att' = [att EXCEPT ![a].conn = att[a].ctor]
           /\ mq' = Append(Tail(mq), Task("connectThen", a))
    /\ Ran("connectResume")
    /\ UNCHANGED <<handleVars, connVars, nAtt, nChan, nCalls, call, running>>

\* (mutant: the callers are resumed last in, first out)
WakeWaitersReversed(ws) == [i \in 1..Len(ws) |-> Task("call", ws[Len(ws) + 1 - i])]

\* The microtasks that resume the callers awaiting a settled request promise.
WakeWaiters(ws) == [i \in 1..Len(ws) |-> Task("call", ws[i])]

\* The then() callbacks tryConnect() attached to connect()'s promise.
ConnectSettled ==
    /\ ~running
    /\ mq # <<>>
    /\ Head(mq).k = "connectThen"
    /\ LET a == Head(mq).n
       IN  /\ IF att[a].conn = "ok"
              THEN /\ cs' = "connected"
                   /\ csConn' = att[a].chan
                   /\ csAtt' = a
                   /\ att' = [att EXCEPT ![a].req = "resolved",
                                         ![a].waiters = <<>>]
              ELSE /\ att' = [att EXCEPT ![a].req = "rejected",
                                         ![a].val = att[a].conn,
                                         ![a].waiters = <<>>]
                   /\ UNCHANGED <<cs, csConn, csAtt>>
           /\ mq' = Tail(mq) \o WakeWaiters(att[a].waiters)
    /\ Ran("connectSettled")
    /\ UNCHANGED <<handleVars, nAtt, nChan, chan, nCalls, call, running>>

\* (mutant: the caller uses the attempt's channel even when the request
\* promise was rejected)
CallTargetAnyway(c) ==
    IF call[c].chan # 0 THEN call[c].chan ELSE att[call[c].att].chan

\* The channel a resumed caller got from tryConnect(): the one captured in
\* the connected state, or the one the request promise resolved with.
CallTarget(c) ==
    IF call[c].chan # 0 THEN call[c].chan
    ELSE IF att[call[c].att].req = "resolved" THEN att[call[c].att].chan
    ELSE 0

\* The forwarding closure resumes after `await this.tryConnect()`: it issues
\* connection.call(), or rejects with the rejection of the request promise
\* (the consumer may react to the rejection in a microtask of its own).
CallResume ==
    /\ ~running
    /\ mq # <<>>
    /\ Head(mq).k = "call"
    /\ LET c == Head(mq).n
           ch == CallTarget(c)
       IN  IF ch # 0
           THEN /\ chan' = [chan EXCEPT ![ch] = ChanCall(@, "method", c)]
                /\ call' = [call EXCEPT ![c].st = "sent", ![c].chan = ch,
                                        ![c].id = chan[ch].nextCallId]
                /\ mq' = Tail(mq)
           ELSE /\ call' = [call EXCEPT ![c].st = "rejected",
                                        ![c].err = att[call[c].att].val]
                /\ \E react \in BOOLEAN :
                      mq' = IF react /\ \A i \in 1..Len(mq) : mq[i] # Tick
                            THEN Append(Tail(mq), Tick)
                            ELSE Tail(mq)
                /\ chan' = chan
    /\ Ran("callResume")
    /\ UNCHANGED <<handleVars, connVars, nAtt, att, nChan, nCalls, running>>

\* ------------------------------------------------------ worker event tasks
Idle == ~running /\ mq = <<>>

Live(ch) == ch <= nChan /\ ~chan[ch].terminated /\ ~chan[ch].faulted

\* The proxy method call whose promise is pending-table entry id of ch.
OwnerCall(ch, id) ==
    {c \in Calls : call[c].st = "sent" /\ call[c].chan = ch /\ call[c].id = id}

\* (mutant: first in, first out; the oldest pending entry takes the response)
LookupOldest(c, m) ==
    IF c.requests = {} THEN 0
    ELSE CHOOSE i \in c.requests : \A j \in c.requests : i <= j

\* (mutant: onMessage takes every response for one of a pending entry)
LookupUnchecked(c, m) == m.id

\* onMessage looks the pending entry up by the id the response carries.
Lookup(c, m) == IF m.id \in c.requests THEN m.id ELSE 0

\* WorkerConnection.onMessage
OnMessage ==
    /\ Idle
    /\ \E ch \in Chans : \E m \in chan[ch].outbox :
        /\ Live(ch)
        /\ chan[ch].listening
        /\ LET id == Lookup(chan[ch], m)
               a == chan[ch].att
           IN  IF id = 0
               THEN /\ chan' = [chan EXCEPT ![ch].outbox = @ \ {m}]
                    /\ UNCHANGED <<att, call, mq>>
               ELSE /\ chan' = [chan EXCEPT ![ch].outbox = @ \ {m},
                                            ![ch].requests = @ \ {id}]
                    /\ IF m.type \notin {"success", "error"}
                       THEN UNCHANGED <<att, call, mq>>
                       ELSE IF id = CtorId
                       THEN /\ att' = [att EXCEPT ![a].ctor =
                                         IF m.type = "success" THEN "ok" ELSE "error"]
                            /\ mq' = Append(mq, Task("connectCont", a))
                            /\ call' = call
                       ELSE /\ call' = [c \in Calls |->
                                  IF c \in OwnerCall(ch, id)
                                  THEN IF m.type = "success"
                                       THEN [call[c] EXCEPT !.st = "fulfilled",
                                                            !.val = m.val]
                                       ELSE [call[c] EXCEPT !.st = "rejected",
                                                            !.err = "error"]
                                  ELSE call[c]]
                            /\ UNCHANGED <<att, mq>>
    /\ Ran("onMessage")
    /\ UNCHANGED <<handleVars, connVars, nAtt, nChan, nCalls, running>>

\* (mutant: onError rejects the constructor call only)
ActiveRequestsCtorOnly(c) == c.requests \cap {CtorId}

\* onError takes every entry of the pending table (while it is attached).
ActiveRequests(c) == IF c.listening THEN c.requests ELSE {}

\* WorkerConnection.onError: the context reports a fatal failure.
OnError ==
    /\ Idle
    /\ \E ch \in Chans :
        /\ Live(ch)
        /\ LET a == chan[ch].att
               rs == ActiveRequests(chan[ch])
           IN  /\ chan' = [chan EXCEPT ![ch].faulted = TRUE,
                                       ![ch].requests = @ \ rs]
               /\ call' = [c \in Calls |->
                             IF \E id \in rs : c \in OwnerCall(ch, id)
                             THEN [call[c] EXCEPT !.st = "rejected", !.err = "fault"]
                             ELSE call[c]]
               /\ IF CtorId \in rs
                  THEN /\ att' = [att EXCEPT ![a].ctor = "fault"]
                       /\ mq' = Append(mq, Task("connectCont", a))
                  ELSE UNCHANGED <<att, mq>>
    /\ Ran("onError")
    /\ UNCHANGED <<handleVars, connVars, nAtt, nChan, nCalls, running>>

\* ------------------------------------------------- worker side (protocol.ts)
\* The error thrown for a method call that arrives with no handler built.
NoHandlerError == -2

\* (mutant: with no handler yet, any call is taken for the constructor call)
InitialisesHandlerAny(method) == TRUE

\* With no handler yet, only a 'constructor' call builds it.
InitialisesHandler(method) == method = "constructor"

\* connectWorker's onmessage up to its first await: with no handler yet, a
\* 'constructor' call builds it (or the constructor throws) and any other
\* method is answered with an error; with a handler, the method is started.
RemoteReceive ==
    \E ch \in Chans :
        /\ Live(ch)
        /\ chan[ch].inbox # <<>>
        /\ LET e == Head(chan[ch].inbox)
           IN  IF chan[ch].handler
               THEN chan' = [chan EXCEPT ![ch].inbox = Tail(@),
                                         ![ch].active = @ \cup {e}]
               ELSE IF ~InitialisesHandler(e.method)
               THEN chan' = [chan EXCEPT ![ch].inbox = Tail(@),
                                         ![ch].outbox = @ \cup
                                            {Response("error", e.id, NoHandlerError)}]
               ELSE \E ok \in BOOLEAN :
                    chan' = [chan EXCEPT ![ch].inbox = Tail(@),
                                         ![ch].handler = ok,
                                         ![ch].outbox = @ \cup
                                            {IF ok THEN Response("success", e.id, 0)
                                                   ELSE Response("error", e.id, 0)}]
        /\ Ran("remoteReceive")
        /\ UNCHANGED <<handleVars, connVars, nAtt, att, nChan, nCalls, call, mq, running>>

\* The awaited handler method completes (or throws) and the response is posted.
RemoteFinish ==
    \E ch \in Chans : \E e \in chan[ch].active : \E ok \in BOOLEAN :
        /\ Live(ch)
        /\ chan' = [chan EXCEPT ![ch].active = @ \ {e},
                                ![ch].outbox = @ \cup
                                   {IF ok THEN Response("success", e.id, Compute(e.arg))
                                          ELSE Response("error", e.id, 0)}]
        /\ Ran("remoteFinish")
        /\ UNCHANGED <<handleVars, connVars, nAtt, att, nChan, nCalls, call, mq, running>>

\* The id of a call envelope posted by a client other than WorkerConnection
\* (WorkerConnection issues 1, 2, ...).
RawId == -1

\* The payload of a message the worker script posts outside the protocol.
StrayVal == -1

\* A client other than WorkerConnection posts a call envelope to the worker
\* context (connectWorker answers any message of type 'call'), one at a time.
RawPost ==
    /\ \E ch \in Chans : \E method \in {"constructor", "method"} :
          /\ Live(ch)
          /\ \A i \in 1..Len(chan[ch].inbox) : chan[ch].inbox[i].id # RawId
          /\ \A e \in chan[ch].active \cup chan[ch].outbox : e.id # RawId
          /\ chan' = [chan EXCEPT ![ch].inbox =
                         Append(@, CallEnv(RawId, method, ConstructorArgs))]
    /\ Ran("rawPost")
    /\ UNCHANGED <<handleVars, connVars, nAtt, att, nChan, nCalls, call, mq, running>>

\* The worker script posts a message of its own to the channel, one at a
\* time: any kind, with an id the channel has issued or would issue next.
RemoteStray ==
    /\ \E ch \in Chans : \E type \in {"success", "error", "other"} :
       \E id \in 1..chan[ch].nextCallId :
          /\ Live(ch)
          /\ \A m \in chan[ch].outbox : m.val # StrayVal
          /\ chan' = [chan EXCEPT ![ch].outbox = @ \cup {Response(type, id, StrayVal)}]
    /\ Ran("remoteStray")
    /\ UNCHANGED <<handleVars, connVars, nAtt, att, nChan, nCalls, call, mq, running>>

Next ==
    \/ ConsumerTask
    \/ ConsumerTick
    \/ ConsumerSchedule
    \/ ConsumerYield
    \/ GetProxy
    \/ Acquire
    \/ Release
    \/ Call
    \/ ConnectResume
    \/ ConnectSettled
    \/ CallResume
    \/ OnMessage
    \/ OnError
    \/ RemoteReceive
    \/ RemoteFinish

Spec == Init /\ [][Next]_vars

\* The event loop runs every queued microtask and delivers every worker
\* message once consumer code has returned; a consumer task runs to
\* completion; the worker context processes and answers what it receives.
\* Consumer code does not chain microtasks forever (that would starve the
\* event loop).  No fairness is assumed of consumer calls or context faults.
Microtask == ConsumerTick \/ ConnectResume \/ ConnectSettled \/ CallResume

FairNext == Next /\ nCalls' <= LiveCalls

FairSpec ==
    /\ Init
    /\ [][FairNext]_vars
    /\ WF_vars(ConsumerYield)
    /\ SF_vars(Microtask)
    /\ SF_vars(OnMessage)
    /\ WF_vars(RemoteReceive)
    /\ WF_vars(RemoteFinish)
    /\ <>[][~ConsumerSchedule]_vars

\* The runs checked for recovery from a context fault: a further proxy method
\* call is issued once every earlier one was rejected with a fault.
RecoverNext ==
    /\ Next
    /\ \/ nCalls' = nCalls
       \/ \A c \in 1..nCalls : call[c].st = "rejected" /\ call[c].err = "fault"

RecoverSpec ==
    /\ Init
    /\ [][RecoverNext]_vars
    /\ WF_vars(ConsumerYield)
    /\ SF_vars(Microtask)
    /\ SF_vars(OnMessage)
    /\ WF_vars(RemoteReceive)
    /\ WF_vars(RemoteFinish)
    /\ <>[][~ConsumerSchedule]_vars

\* The worker side with any client: the proxy's traffic and call envelopes
\* posted by another client.
RemoteNext == (Next /\ nCalls' <= LiveCalls) \/ RawPost

RemoteSpec == Init /\ [][RemoteNext]_vars

\* The channel with any worker script: the proxy's traffic and messages the
\* script posts outside the protocol.
StrayNext == (Next /\ nCalls' <= LiveCalls) \/ RemoteStray

StraySpec == Init /\ [][StrayNext]_vars

TypeOK ==
    /\ instance \in BOOLEAN
    /\ refCount \in -MinRefDepth..MaxRef
    /\ cs \in {"disconnected", "blocked", "ready", "connecting", "connected"}
    /\ csAtt \in 0..MaxAtt
    /\ csConn \in 0..MaxChan
    /\ nAtt \in 0..MaxAtt
    /\ nChan \in 0..MaxChan
    /\ nCalls \in 0..MaxCalls
    /\ running \in BOOLEAN

\* ------------------------------------------------------------ properties
\* Nothing is left to run: the event loop is idle, no response is waiting to
\* be delivered to an attached listener and no worker context has work left.
Quiet ==
    /\ Idle
    /\ \A ch \in Chans :
          Live(ch) => /\ chan[ch].inbox = <<>>
                      /\ chan[ch].active = {}
                      /\ chan[ch].listening => chan[ch].outbox = {}

\* C2: as long as acquire() has not been called, no proxy method call invokes
\* the worker factory, sends a call envelope or settles: every call issued
\* is still waiting; and if release() has not been called either, the state
\* is blocked from the first method call on.
C2_BlockedUntilAcquired ==
    "acquire" \notin invoked =>
        /\ nChan = 0
        /\ \A c \in 1..nCalls : call[c].st = "waiting"
        /\ ("release" \notin invoked /\ nCalls >= 1) => cs = "blocked"

\* C2 witness: two method calls were issued with no acquire() and the event
\* loop has gone idle again.
C2_Witness ==
    /\ invoked = {}
    /\ nCalls = 2
    /\ cs = "blocked"
    /\ Idle

\* Call c is waiting on the shared request promise of the current attempt
\* and acquire() has just returned.
AcquiredWhileWaiting(c) ==
    /\ lastOp = "acquire"
    /\ call[c].st = "waiting"
    /\ call[c].att = csAtt

\* Call c has settled with a response of the worker context: fulfilled with
\* the result of its own call, or rejected with an error envelope.
SettledByRemote(c) ==
    \/ call[c].st = "fulfilled" /\ call[c].val = Compute(c)
    \/ call[c].st = "rejected" /\ call[c].err = "error"

\* What C3 assumes away: a release() follows, or the context of the call's
\* attempt faults instead of answering.
ReleasedOrFaulted(c) ==
    \/ lastOp = "release"
    \/ \E ch \in Chans : chan[ch].att = call[c].att /\ chan[ch].faulted

\* C3 as stated: after any acquire() with call c waiting in the current
\* attempt, c eventually settles with a response of the worker (unless a
\* release() follows or the context faults).
C3_AcquireResolvesAlways ==
    \A c \in Calls :
        AcquiredWhileWaiting(c) ~> (SettledByRemote(c) \/ ReleasedOrFaulted(c))

\* C3 amended: after an acquire() that leaves the reference count positive,
\* with call c waiting in the current attempt, c eventually settles with a
\* response of the worker (unless a release() follows or the context faults).
C3_AcquireResolves ==
    \A c \in Calls :
        (AcquiredWhileWaiting(c) /\ refCount > 0)
            ~> (SettledByRemote(c) \/ ReleasedOrFaulted(c))

\* C3 witness: acquire() has just returned with the count at one and the
\* state connecting (so it found the state blocked), and a call that waited
\* in the blocked state is waiting on the attempt now under construction.
C3_Witness ==
    \E c \in Calls :
        /\ AcquiredWhileWaiting(c)
        /\ refCount = 1
        /\ cs = "connecting"
        /\ att[csAtt].chan = nChan
        /\ chan[nChan].inbox = <<CallEnv(CtorId, "constructor", ConstructorArgs)>>

\* The worker did not answer call c's attempt with success: an error
\* envelope answered the constructor call or the call, or the context faulted.
RemoteFailed(c) ==
    \/ call[c].att # 0 /\ att[call[c].att].ctor \in {"error", "fault"}
    \/ call[c].st = "rejected" /\ call[c].err \in {"error", "fault"}
    \/ \E ch \in Chans : chan[ch].att = call[c].att /\ chan[ch].faulted

\* Call c has just been issued on a definition that was acquired and never
\* released.
CalledWhileAcquired(c) ==
    /\ lastOp = "call"
    /\ nCalls = c
    /\ "release" \notin invoked
    /\ refCount > 0

\* C4: a proxy method call issued after acquire(), with no release() before
\* or after it, eventually fulfils with the result the worker computed for
\* that call (unless the worker answers with an error or faults).
C4_AcquiredCallFulfils ==
    \A c \in Calls :
        CalledWhileAcquired(c)
            ~> \/ call[c].st = "fulfilled" /\ call[c].val = Compute(c)
               \/ lastOp = "release"
               \/ RemoteFailed(c)

\* C4 witness: acquire(), then a call, no release(): the call has fulfilled
\* with the result of the success envelope that carried its id.
C4_Witness ==
    /\ invoked = {"acquire"}
    /\ refCount = 1
    /\ nAtt = 1
    /\ nCalls = 1
    /\ call[1].st = "fulfilled"
    /\ call[1].val = Compute(1)
    /\ cs = "connected"

\* The constructor call of the current connection attempt has completed
\* with a success envelope.
CurrentCtorOk == csAtt # 0 /\ att[csAtt].ctor = "ok"

\* C5: the state is connected only if the reference count is positive and
\* the constructor call of the current attempt has succeeded; and whenever
\* consumer code runs (and can call getState()) with a positive count and a
\* succeeded constructor call, the state is connected.
C5_ConnectedIffHeldAndBuilt ==
    /\ cs = "connected" => (refCount > 0 /\ CurrentCtorOk)
    /\ (running /\ refCount > 0 /\ CurrentCtorOk) => cs = "connected"

\* C5 witness: consumer code observes the connected state after an earlier
\* release() and a new acquire().
C5_Witness ==
    /\ running
    /\ cs = "connected"
    /\ refCount > 0
    /\ invoked = {"acquire", "release"}

\* C6 as stated: the state is disconnected whenever the reference count is
\* zero or below.
C6_DisconnectedAtZero == refCount <= 0 => cs = "disconnected"

\* C6 amended: whenever the reference count is zero or below the state is
\* disconnected or blocked, and a release() that leaves the count at zero or
\* below returns with the state disconnected.
C6_ReleasedAtZero ==
    /\ refCount <= 0 => cs \in {"disconnected", "blocked"}
    /\ (lastOp = "release" /\ refCount <= 0) => cs = "disconnected"

\* C6 witness: a release() has just brought the count to zero in the
\* connected state (the connected channel is disposed) and left the state
\* disconnected.
C6_Witness ==
    /\ lastOp = "release"
    /\ refCount = 0
    /\ cs = "disconnected"
    /\ \E a \in Atts :
          /\ att[a].req = "resolved"
          /\ att[a].aborted
          /\ chan[att[a].chan].terminated

\* C7: a release() that leaves the reference count positive decrements the
\* count and changes nothing else: not the connection state, the attempts
\* (request promises, cancellation handles), the channels, the calls or the
\* microtask queue.
C7_ReleaseAboveZeroOnlyCounts ==
    [][(Release /\ refCount' > 0) =>
          /\ refCount' = refCount - 1
          /\ UNCHANGED <<instance, cs, csAtt, csConn, nAtt, att, nChan, chan,
                         nCalls, call, mq, running>>]_vars

\* C7 witness: a release() has just left the count at one while the state is
\* connected and a sent call is pending on the channel.
C7_Witness ==
    /\ lastOp = "release"
    /\ refCount = 1
    /\ cs = "connected"
    /\ \E c \in Calls : call[c].st = "sent" /\ call[c].chan = csConn
    /\ chan[csConn].listening

\* C8 as stated: the reference count is non-negative in every reachable
\* state, after any sequence of getProxy(), acquire() and release() calls.
C8_CountNonNegative == refCount >= 0

\* C8: the reference count is an integer that is 0 until the Lazy Connection
\* exists and non-negative until release() is called; it changes only by +1
\* in acquire() and by -1 in a release() made once the Lazy Connection
\* exists, which may take it below zero.
C8_CountTracksAcquiresAndReleases ==
    /\ [](/\ refCount \in Int
          /\ ~instance => refCount = 0
          /\ refCount < 0 => "release" \in invoked)
    /\ [][/\ lastOp' = "acquire" => refCount' = refCount + 1
          /\ lastOp' = "release" =>
                 refCount' = IF instance THEN refCount - 1 ELSE refCount
          /\ lastOp' \notin {"acquire", "release"} => refCount' = refCount]_vars

\* getProxy() then release(): the count stands at -1.
C8_Witness ==
    /\ instance
    /\ invoked = {"release"}
    /\ lastOp = "release"
    /\ refCount = -1

\* The response envelope m is delivered to channel ch in this step.
Delivered(ch, m) == m \in chan[ch].outbox /\ m \notin chan'[ch].outbox

\* C9: a call pending on a channel is settled by onMessage only with the
\* response envelope that carries the call's own id, fulfilled with that
\* envelope's result or rejected with its error, and the delivery of that
\* envelope settles it, whatever other calls are pending on the channel and
\* whatever order the responses arrive in; a fulfilled call holds the result
\* of its own argument.
C9_SettledByOwnId ==
    /\ [](\A c \in Calls : call[c].st = "fulfilled" => call[c].val = Compute(c))
    /\ [][lastOp' = "onMessage" =>
            \A c \in Calls : call[c].st = "sent" =>
               LET ch == call[c].chan
                   own == {m \in chan[ch].outbox : m.id = call[c].id /\ Delivered(ch, m)}
               IN  IF own = {}
                   THEN call'[c] = call[c]
                   ELSE \E m \in own :
                          \/ /\ m.type = "success"
                             /\ call'[c] = [call[c] EXCEPT !.st = "fulfilled",
                                                           !.val = m.val]
                          \/ /\ m.type = "error"
                             /\ call'[c] = [call[c] EXCEPT !.st = "rejected",
                                                           !.err = "error"]]_vars

\* Two calls were pending on the connected channel; the response to the later
\* one has arrived first and fulfilled it, the response to the earlier one is
\* still on its way.
C9_Witness ==
    /\ cs = "connected"
    /\ call[1].st = "sent"
    /\ call[1].chan = csConn
    /\ call[2].st = "fulfilled"
    /\ call[2].val = Compute(2)
    /\ call[2].chan = csConn
    /\ call[1].id < call[2].id
    /\ call[1].id \in chan[csConn].requests
    /\ Response("success", call[1].id, Compute(1)) \in chan[csConn].outbox
    /\ lastOp = "onMessage"

\* The channel whose context reports the fatal failure in this step.
Faults(ch) == ~chan[ch].faulted /\ chan'[ch].faulted

\* The proxy method calls pending on channel ch.
PendingOn(ch) ==
    {c \in Calls : call[c].st = "sent" /\ call[c].chan = ch
                     /\ call[c].id \in chan[ch].requests}

\* C10: when the context of a channel reports a fatal failure, every call
\* pending on that channel is rejected with that failure (the constructor call
\* included) and its pending table is empty afterwards; no other call is
\* touched, no channel is created (the worker factory is not invoked) and the
\* connection state does not change, neither in that step nor when connect()
\* later resumes with the failure.
C10_FaultRejectsPending ==
    /\ [][\A ch \in Chans : Faults(ch) =>
            /\ lastOp' = "onError"
            /\ chan'[ch].requests = {}
            /\ \A c \in Calls :
                  call'[c] = IF c \in PendingOn(ch)
                             THEN [call[c] EXCEPT !.st = "rejected", !.err = "fault"]
                             ELSE call[c]
            /\ CtorId \in chan[ch].requests => att'[chan[ch].att].ctor = "fault"
            /\ UNCHANGED <<cs, csAtt, csConn, nAtt, nChan, instance, refCount>>
            /\ \A o \in Chans \ {ch} : chan'[o] = chan[o]]_vars
    /\ [][(/\ lastOp' \in {"connectResume", "connectSettled"}
           /\ att[Head(mq).n].ctor = "fault")
          => UNCHANGED <<cs, csAtt, csConn, nAtt, nChan>>]_vars

\* A fault has just hit the connected channel with the two method calls
\* pending on it: both are rejected with it and the state is still connected.
C10_Witness ==
    /\ lastOp = "onError"
    /\ cs = "connected"
    /\ chan[csConn].faulted
    /\ chan[csConn].requests = {}
    /\ \A c \in Calls : /\ call[c].st = "rejected"
                         /\ call[c].err = "fault"
                         /\ call[c].chan = csConn

\* Channel ch belongs to an attempt that disconnect() has ended, and its
\* context has reported a fatal failure.
FaultedAndDisconnected(ch) ==
    /\ ch <= nChan
    /\ chan[ch].faulted
    /\ att[chan[ch].att].aborted

\* Call c has just been issued with the definition acquired, after a context
\* fault and the disconnect() of the faulted attempt.
CalledAfterFault(c) ==
    /\ lastOp = "call"
    /\ nCalls = c
    /\ refCount > 0
    /\ \E ch \in Chans : FaultedAndDisconnected(ch)

\* C11: a proxy method call issued with the definition acquired, after a
\* context fault (in connecting or connected) and the disconnect() of the
\* faulted attempt, belongs to a new attempt, for which the worker factory has
\* built a channel distinct from the faulted one; and the call eventually
\* fulfils on that channel with the worker's result (unless a release()
\* follows or the new worker answers with an error or faults too).
C11_RecoversAfterFault ==
    /\ [](\A c \in Calls : CalledAfterFault(c) =>
            \A ch \in Chans : FaultedAndDisconnected(ch) =>
                /\ call[c].att # chan[ch].att
                /\ att[call[c].att].chan \notin {0, ch}
                /\ att[call[c].att].chan <= nChan)
    /\ \A c \in Calls :
          CalledAfterFault(c)
              ~> \/ /\ call[c].st = "fulfilled"
                    /\ call[c].val = Compute(c)
                    /\ call[c].chan = att[call[c].att].chan
                 \/ lastOp = "release"
                 \/ RemoteFailed(c)

\* C11 witness: the first call was rejected by a fault of the connected
\* channel; after release() and acquire() the second call has fulfilled on a
\* second channel.
C11_Witness ==
    /\ call[1].st = "rejected"
    /\ call[1].err = "fault"
    /\ call[1].chan = 1
    /\ att[1].req = "resolved"
    /\ chan[1].faulted
    /\ chan[1].terminated
    /\ call[2].st = "fulfilled"
    /\ call[2].val = Compute(2)
    /\ call[2].chan = 2
    /\ cs = "connected"
    /\ csConn = 2

\* Call c waited on the shared request promise of an attempt that was never
\* made ready (no construction began), and disconnect() has signalled that
\* attempt's cancellation handle.
BlockedAndDisconnected(c) ==
    /\ call[c].att # 0
    /\ att[call[c].att].aborted
    /\ att[call[c].att].conn = "pending"
    /\ att[call[c].att].chan = 0

\* C12: a call issued in the blocked state whose attempt is then disconnected
\* is not left pending: once nothing is left to run, its promise has rejected.
C12_DisconnectRejectsBlocked ==
    \A c \in Calls :
        (Quiet /\ BlockedAndDisconnected(c)) => call[c].st = "rejected"

\* The shared request promise of attempt a settles in this step, after
\* disconnect() signalled the attempt while its construction was under way
\* (its channel was already created; no consumer code runs between the
\* answer to the constructor call and the settling of the promise).
SettlesAfterDisconnect(a) ==
    /\ att[a].req = "pending"
    /\ att'[a].req # "pending"
    /\ att[a].aborted
    /\ att[a].chan # 0

\* C13: when disconnect() happens in the connecting state, the shared request
\* promise rejects with the cancellation error and the channel created for
\* the attempt is disposed (its context terminated), whatever the outcome of
\* the outstanding constructor call.
C13_ConnectingDisconnectDisposes ==
    [][\A a \in Atts : SettlesAfterDisconnect(a) =>
          /\ att'[a].req = "rejected"
          /\ att'[a].val = "abort"
          /\ chan'[att[a].chan].terminated]_vars

\* The call envelopes channel ch has sent that its worker has not answered.
InFlight(ch) ==
    {chan[ch].inbox[i] : i \in 1..Len(chan[ch].inbox)} \cup chan[ch].active

\* The constructor call envelope every channel begins with.
CtorEnv == CallEnv(CtorId, "constructor", ConstructorArgs)

\* C14: the first call envelope on every channel is the 'constructor' call
\* with the configured constructor arguments, sent as the channel is built;
\* an envelope of another method is sent on a channel only once the success
\* response to that constructor call has been received; and the state is
\* connected only after that success, with that channel.
C14_ConstructorFirst ==
    /\ [](/\ \A ch \in 1..nChan :
                /\ chan[ch].nextCallId > CtorId
                /\ \A e \in InFlight(ch) : e.id = CtorId <=> e = CtorEnv
                /\ chan[ch].nextCallId > CtorId + 1 => att[chan[ch].att].ctor = "ok"
          /\ cs = "connected" =>
                /\ att[csAtt].ctor = "ok"
                /\ csConn = att[csAtt].chan)
    /\ [][\A ch \in Chans :
            /\ (ch = nChan' /\ nChan' # nChan) =>
                   /\ chan'[ch].inbox = <<CtorEnv>>
                   /\ chan'[ch].requests = {CtorId}
            /\ (ch <= nChan /\ chan'[ch].nextCallId # chan[ch].nextCallId) =>
                   /\ att[chan[ch].att].ctor = "ok"
                   /\ lastOp' = "callResume"]_vars

\* C14 witness: a method call envelope has just been sent on the connected
\* channel, after the success response to the constructor call.
C14_Witness ==
    /\ lastOp = "callResume"
    /\ cs = "connected"
    /\ att[csAtt].ctor = "ok"
    /\ chan[csConn].inbox = <<CallEnv(CtorId + 1, "method", 1)>>
    /\ call[1].st = "sent"

\* The response envelopes the worker context of channel ch posts in this step.
Answers(ch) == chan'[ch].outbox \ chan[ch].outbox

\* The number of places a call envelope with this id is at inside the worker
\* context of ch: queued, being handled, or answered and not yet delivered.
Stages(ch, id) ==
    Cardinality({i \in 1..Len(chan[ch].inbox) : chan[ch].inbox[i].id = id})
    + Cardinality({e \in chan[ch].active : e.id = id})
    + Cardinality({m \in chan[ch].outbox : m.id = id})

\* C15: the worker side answers every call envelope it receives with exactly
\* one response envelope of the same id: a response is posted only as the
\* handling of one received envelope ends, with that envelope's id, and each
\* envelope is handled once; and a call of a method other than 'constructor'
\* received while no handler is built is answered with an error envelope and
\* builds no handler.
C15_OneResponsePerCall ==
    /\ [](\A ch \in Chans : \A id \in RawId..MaxCalls + 1 : Stages(ch, id) <= 1)
    /\ [][\A ch \in Chans :
            CASE lastOp' = "remoteReceive" /\ chan'[ch] # chan[ch] ->
                    LET e == Head(chan[ch].inbox)
                    IN  /\ chan'[ch].inbox = Tail(chan[ch].inbox)
                        /\ IF chan[ch].handler
                           THEN /\ chan'[ch].active = chan[ch].active \cup {e}
                                /\ Answers(ch) = {}
                                /\ chan'[ch].handler
                           ELSE /\ chan'[ch].active = chan[ch].active
                                /\ \E m \in Answers(ch) :
                                      /\ Answers(ch) = {m}
                                      /\ m.id = e.id
                                      /\ m.type \in {"success", "error"}
                                      /\ chan'[ch].handler <=> m.type = "success"
                                      /\ e.method # "constructor" =>
                                            /\ m = Response("error", e.id, NoHandlerError)
                                            /\ ~chan'[ch].handler
              [] lastOp' = "remoteFinish" /\ chan'[ch] # chan[ch] ->
                    \E e \in chan[ch].active : \E m \in Answers(ch) :
                        /\ chan'[ch].active = chan[ch].active \ {e}
                        /\ chan'[ch].inbox = chan[ch].inbox
                        /\ Answers(ch) = {m}
                        /\ m.id = e.id
                        /\ m.type \in {"success", "error"}
              [] OTHER -> Answers(ch) = {}]_vars

\* C15 witness: the constructor call of a channel failed, and a call of
\* another method, received with no handler built, has just been answered
\* with the error envelope of its id; still no handler.
C15_Witness ==
    /\ lastOp = "remoteReceive"
    /\ \E ch \in 1..nChan :
          /\ ~chan[ch].handler
          /\ att[chan[ch].att].ctor = "error"
          /\ chan[ch].outbox = {Response("error", RawId, NoHandlerError)}
          /\ chan[ch].inbox = <<>>

\* C16: getProxy() changes neither the reference count nor anything of the
\* connection (state, attempts, channels, calls, microtasks): the state is
\* disconnected on a fresh definition and after any number of getProxy()
\* calls, and the worker factory has not been invoked.
C16_GetProxyOnlyCreates ==
    /\ []((invoked = {} /\ nCalls = 0) =>
            (cs = "disconnected" /\ refCount = 0 /\ nChan = 0 /\ nAtt = 0))
    /\ [][lastOp' = "getProxy" =>
            /\ instance'
            /\ UNCHANGED <<refCount, cs, csAtt, csConn, nAtt, att, nChan, chan,
                           nCalls, call, mq, running>>]_vars

\* C16 witness: getProxy() has just returned on a definition on which nothing
\* but getProxy() was called.
C16_Witness ==
    /\ lastOp = "getProxy"
    /\ instance
    /\ invoked = {}
    /\ nCalls = 0
    /\ cs = "disconnected"
    /\ refCount = 0

\* acquire() has just returned and found the state blocked: the state is
\* connecting on a channel whose constructor call is not yet received, and
\* call c is waiting on the attempt.
AcquiredFromBlocked(c) ==
    /\ AcquiredWhileWaiting(c)
    /\ cs = "connecting"
    /\ nChan > 0
    /\ att[csAtt].chan = nChan
    /\ chan[nChan].inbox = <<CtorEnv>>

\* The outcome of the constructor call of call c's attempt.
CtorOf(c) == IF call[c].att = 0 THEN "pending" ELSE att[call[c].att].ctor

\* The state of the shared request promise call c awaited.
RequestOf(c) == IF call[c].att = 0 THEN "pending" ELSE att[call[c].att].req

\* What follows an acquire() made with call c waiting: the state becomes
\* connected on the call's attempt, and the call settles with a response of
\* the worker, unless a release() follows, the context faults or the worker's
\* constructor fails.
ConnectsAndResolves(c) ==
    /\ AcquiredFromBlocked(c)
          ~> \/ cs = "connected" /\ csAtt = call[c].att
             \/ ReleasedOrFaulted(c)
             \/ CtorOf(c) = "error"
    /\ AcquiredFromBlocked(c)
          ~> \/ SettledByRemote(c) /\ RequestOf(c) = "resolved"
             \/ ReleasedOrFaulted(c)
             \/ CtorOf(c) = "error"

\* C17 as stated: every acquire() called in the blocked state returns with
\* the state connecting, having invoked the worker factory exactly once; the
\* state then becomes connected and the waiting call resolves.
C17_AcquireFromBlockedAlways ==
    /\ [][(lastOp' = "acquire" /\ cs = "blocked") =>
            (cs' = "connecting" /\ nChan' = nChan + 1)]_vars
    /\ \A c \in Calls : ConnectsAndResolves(c)

\* C17 amended: an acquire() called in the blocked state that leaves the
\* reference count positive returns with the state connecting, having invoked
\* the worker factory exactly once (one new channel, carrying the constructor
\* call); one that leaves the count at zero or below leaves the state blocked
\* and invokes nothing.  After the former the state becomes connected and the
\* waiting call resolves (unless a release() follows or the worker fails).
C17_AcquireFromBlocked ==
    /\ [][(lastOp' = "acquire" /\ cs = "blocked") =>
            IF refCount' > 0
            THEN /\ cs' = "connecting"
                 /\ nChan' = nChan + 1
                 /\ chan'[nChan'].inbox = <<CtorEnv>>
                 /\ att'[csAtt].chan = nChan'
                 /\ csAtt' = csAtt
            ELSE /\ cs' = "blocked"
                 /\ nChan' = nChan]_vars
    /\ \A c \in Calls : ConnectsAndResolves(c)

\* C17 witness: the call waited in the blocked state, acquire() brought the
\* count to one, the state is connected now and the call has resolved.
C17_Witness ==
    /\ invoked = {"acquire"}
    /\ refCount = 1
    /\ nChan = 1
    /\ cs = "connected"
    /\ call[1].st = "fulfilled"
    /\ call[1].val = Compute(1)
    /\ att[1].waiters = <<>>
    /\ call[1].att = 1
    /\ call[1].id = CtorId + 1
    /\ lastOp = "onMessage"

\* C18: within one connection attempt the worker factory is invoked at most
\* once (no two channels belong to the same attempt), however many proxy
\* method calls and acquire() calls are issued and however they interleave
\* with the construction: a call made in blocked or connecting joins the
\* current attempt and waits, creating no attempt and no channel, and an
\* acquire() in ready, connecting or connected changes nothing of the
\* connection.
C18_OneFactoryCallPerAttempt ==
    /\ [](\A c1, c2 \in 1..nChan : chan[c1].att = chan[c2].att => c1 = c2)
    /\ [][/\ (lastOp' = "call" /\ cs \in {"blocked", "connecting"}) =>
               /\ UNCHANGED <<cs, csAtt, csConn, nAtt, nChan, chan>>
               /\ call'[nCalls'].st = "waiting"
               /\ call'[nCalls'].att = csAtt
          /\ (lastOp' = "acquire" /\ cs \in {"ready", "connecting", "connected"}) =>
               UNCHANGED <<cs, csAtt, csConn, nAtt, att, nChan, chan, call, mq>>
          /\ nChan' # nChan =>
               /\ nChan' = nChan + 1
               /\ cs \in {"blocked", "ready"}
               /\ cs' = "connecting"
               /\ chan'[nChan'].att = csAtt]_vars

\* C18 witness: one call was issued in the blocked state and one in the
\* connecting state, acquire() was called twice; both calls wait on the one
\* attempt, for which one channel was built.
C18_Witness ==
    /\ cs = "connecting"
    /\ refCount = 2
    /\ nAtt = 1
    /\ nChan = 1
    /\ att[1].waiters = <<1, 2>>
    /\ lastOp = "acquire"
    /\ "release" \notin invoked

\* C19: a response envelope whose kind is neither success nor error is
\* ignored by onMessage: it settles no call and the pending table is left as
\* it is, so that a later valid response for that id still settles the call.
C19_UnknownKindIgnored ==
    [][\A ch \in Chans : \A m \in chan[ch].outbox :
          (/\ lastOp' = "onMessage"
           /\ Delivered(ch, m)
           /\ m.type \notin {"success", "error"})
          => /\ chan'[ch].requests = chan[ch].requests
             /\ UNCHANGED <<call, att, mq>>]_vars

\* C20: every pending-table entry is removed exactly once and every call is
\* settled at most once.  An id enters the table only as the next id of its
\* channel and leaves it only by the delivery of a response with that id or
\* by the fault of the channel; a response whose id is not in the table (the
\* id is settled already, or was never issued) changes neither the table nor
\* any promise; and a settled call keeps its outcome.
C20_SettledOnce ==
    /\ [](\A ch \in Chans : \A id \in chan[ch].requests :
            id >= CtorId /\ id < chan[ch].nextCallId)
    /\ [][/\ \A ch \in Chans :
               /\ chan'[ch].nextCallId >= chan[ch].nextCallId
               /\ \A id \in chan'[ch].requests \ chan[ch].requests :
                     id = chan[ch].nextCallId /\ ch <= nChan'
               /\ \A id \in chan[ch].requests \ chan'[ch].requests :
                     \/ lastOp' = "onError" /\ chan'[ch].requests = {}
                     \/ /\ lastOp' = "onMessage"
                        /\ \E m \in chan[ch].outbox : Delivered(ch, m) /\ m.id = id
                        /\ chan'[ch].requests = chan[ch].requests \ {id}
               /\ \A m \in chan[ch].outbox :
                     (lastOp' = "onMessage" /\ Delivered(ch, m)
                        /\ m.id \notin chan[ch].requests)
                     => /\ chan'[ch].requests = chan[ch].requests
                        /\ UNCHANGED <<call, att, mq>>
          /\ \A c \in Calls :
               call[c].st \in {"fulfilled", "rejected"} => call'[c] = call[c]
          /\ \A a \in Atts :
               /\ att[a].ctor # "pending" => att'[a].ctor = att[a].ctor
               /\ att[a].req # "pending" =>
                     (att'[a].req = att[a].req /\ att'[a].val = att[a].val)]_vars

\* C20 witness: a message of the worker script settled the call first; the
\* worker's own response to the call, second for that id, has been delivered
\* since and changed nothing.
C20_Witness ==
    /\ lastOp = "onMessage"
    /\ cs = "connected"
    /\ call[1].st = "fulfilled"
    /\ call[1].val = StrayVal
    /\ call[1].chan = csConn
    /\ chan[csConn].requests = {}
    /\ chan[csConn].nextCallId = CtorId + 2
    /\ chan[csConn].inbox = <<>>
    /\ chan[csConn].active = {}
    /\ chan[csConn].outbox = {}

\* Call c has been sent as a call envelope (it holds an id of its channel).
WasSent(c) == call[c].id # 0

\* C21: the proxy method calls of one attempt (those submitted while it was
\* blocked or connecting among them) are sent on the one channel constructed
\* for the attempt and in the order of their submission: a later call is sent
\* only after every earlier one, with a larger id; and once the attempt is
\* connected and the event loop is idle, none of its calls is still waiting.
C21_SentInCallOrder ==
    /\ \A c \in 1..nCalls :
          WasSent(c) => /\ call[c].chan = att[call[c].att].chan
                        /\ att[call[c].att].req = "resolved"
    /\ \A c1, c2 \in 1..nCalls :
          (c1 < c2 /\ call[c1].att = call[c2].att /\ WasSent(c2)) =>
              (WasSent(c1) /\ call[c1].id < call[c2].id)
    /\ \A c \in 1..nCalls :
          (Idle /\ att[call[c].att].req = "resolved") => call[c].st # "waiting"

\* C21 witness: two calls waited on the attempt's request promise; the state
\* has become connected, the first call has just been sent with the first id
\* after the constructor call's and the second is next in the queue.
C21_Witness ==
    /\ cs = "connected"
    /\ lastOp = "callResume"
    /\ call[1].st = "sent"
    /\ call[1].id = CtorId + 1
    /\ call[1].chan = csConn
    /\ call[2].st = "waiting"
    /\ call[2].att = call[1].att
    /\ call[2].chan = 0
    /\ mq = <<Task("call", 2)>>

\* Proxy method call c is sent as a call envelope in this step.
Sends(c) == call[c].id = 0 /\ call'[c].id # 0

\* C22: no call envelope is sent on a channel that has been disposed: a
\* proxy method call is sent on a channel whose context is not terminated
\* (or it is rejected without being sent), however release() interleaves.
C22_NeverSentOnDisposed ==
    [][\A c \in Calls : Sends(c) => ~chan[call'[c].chan].terminated]_vars

\* The worker contexts the factory has created that are not terminated.
LiveContexts == {ch \in 1..nChan : ~chan[ch].terminated}

\* C23: at most one created and not yet terminated worker context exists in
\* every reachable state, and once the state machine is back in disconnected
\* and nothing is left to run, every context the factory created has been
\* terminated.
C23_ContextsTerminated ==
    /\ Cardinality(LiveContexts) <= 1
    /\ (Quiet /\ cs = "disconnected") => LiveContexts = {}

\* C24: whenever the state is connecting a construction is in progress: the
\* shared request promise of the current attempt is still pending, and when
\* the event loop is idle so is the attempt's constructor call; a rejected
\* constructor call does not leave the machine in connecting.
C24_ConnectingIsInProgress ==
    cs = "connecting" =>
        /\ att[csAtt].req = "pending"
        /\ Idle => att[csAtt].ctor = "pending"

\* The constructor call of call c's connection attempt has not failed (no
\* error envelope and no context fault answered it).
CtorNotFailed(c) == att[call[c].att].ctor \notin {"error", "fault"}

\* C1: a proxy method call of the current connection attempt whose promise is
\* unsettled when a release() brings the reference count to zero never
\* fulfils, and does not stay pending: once nothing is left to run, its
\* promise has rejected with the cancellation (abort) error (stated for the
\* runs in which the attempt's constructor call does not itself fail).
C1_ReleasedCallRejects ==
    \A c \in cut :
        /\ call[c].st # "fulfilled"
        /\ (Quiet /\ CtorNotFailed(c)) =>
              (call[c].st = "rejected" /\ call[c].err = "abort")

====
